---- MODULE Spec2Model ----
(***************************************************************************)
(* Blender ID add-on: the profile store (blender_id/profiles.py), the      *)
(* remote authentication client (blender_id/api.py) and the login/logout   *)
(* operators (blender_id/__init__.py), as one state machine.               *)
(*                                                                         *)
(* Every operator call is one action: the add-on is single-threaded and    *)
(* synchronous, so a handler runs from entry to return (or to the point    *)
(* where an exception leaves it) without interleaving.                     *)
(***************************************************************************)
EXTENDS Naturals, Sequences, FiniteSets, TLC

(***************************************************************************)
(* Values                                                                  *)
(***************************************************************************)

\* Python's None where a string may stand (active_profile, error_message):
\* a reserved value different from every string the model draws.
None == "<None>"

\* The service issues user ids as JSON numbers; the client turns them into
\* strings with str(), so a user id of the service is never the empty string.
\* The store API (a public module function) may also be handed "".
RawUserIds == {1, 2}
str(n) == IF n = 1 THEN "1" ELSE "2"
ServerUserIds == {str(n) : n \in RawUserIds}
UserIds == {""} \cup ServerUserIds
\* The service issues one of NumTokens access tokens.
NumTokens == 2
TokenNames == <<"t1", "t2", "t3">>
Tokens == {TokenNames[i] : i \in 1..NumTokens}
Usernames == {"alice", "bob"}
\* The name typed into the Username field, which is blank until then.
EnteredUsernames == {"alice"}
Passwords == {"pw"}

\* A stored Profile and a document of the store (spec section 3).
Profile(n, t) == [username |-> n, token |-> t]
Profiles == {Profile(n, t) : n \in Usernames, t \in Tokens}
EmptyProfiles == [u \in {} |-> Profile("", "")]

\* What a function call hands back, as one comparable shape: a raised
\* exception hands back nothing, None is PyNone, a string is wrapped.
NoReturn == [py |-> "raised"]
PyNone == [py |-> "None"]
PyStr(s) == [py |-> "str", v |-> s]
ToRet(x) == IF x = None THEN PyNone ELSE PyStr(x)

\* "not user_id" for a nullable string.
Falsy(x) == x = None \/ x = ""

(***************************************************************************)
(* The store file                                                          *)
(***************************************************************************)

\* File contents: absent, one of the classes json.load and the two key
\* look-ups tell apart, or the JSON text of a document.
\*   invalid    : not JSON (includes bytes that are not UTF-8)
\*   empty      : zero bytes (also what open(..., 'w') leaves before dump)
\*   nonobject  : valid JSON whose top level is not an object ([], 5, "x", null)
\*   missingkey : a JSON object without 'active_profile' or without 'profiles'
Absent == [kind |-> "absent"]
CorruptKinds == {"invalid", "empty", "nonobject", "missingkey"}
Text(k) == [kind |-> k]

\* json.dump of a document whose keys and leaves are strings or None; json.load
\* of that text gives back an equal dict (None <-> null, str <-> string).
json_dump(doc) == [kind |-> "doc", doc |-> doc]

Doc(a, p) == [active_profile |-> a, profiles |-> p]

profiles_default_data == Doc(None, EmptyProfiles)

\* The number of characters json.dump writes for a document (separators
\* ', ' and ': ', None as null, every string in double quotes).
RECURSIVE EntriesLen(_, _)
EntriesLen(profiles, keys) ==
    IF keys = {} THEN 0
    ELSE LET k == CHOOSE x \in keys : TRUE
         IN  Len("\"\": {\"username\": \"\", \"token\": \"\"}")
             + Len(k) + Len(profiles[k].username) + Len(profiles[k].token)
             + (IF keys \ {k} = {} THEN 0 ELSE Len(", "))
             + EntriesLen(profiles, keys \ {k})

JsonLen(doc) ==
    Len("{\"active_profile\": , \"profiles\": {}}")
    + (IF doc.active_profile = None THEN Len("null")
       ELSE Len(doc.active_profile) + Len("\"\""))
    + EntriesLen(doc.profiles, DOMAIN doc.profiles)

\* What the file holds after a process writes `text` through a handle it
\* opened earlier: open(..., 'w') truncates when it opens, and the write goes
\* to offset 0 of whatever the file holds by then. On an empty file that is
\* the text; on a longer text another process wrote meanwhile, the text
\* followed by the tail of the other, which is not JSON.
Overlays(text, held) ==
    IF held.kind = "absent" THEN {held}
    ELSE IF held.kind = "empty" THEN {text}
    ELSE IF held.kind = "doc"
    THEN IF JsonLen(text.doc) >= JsonLen(held.doc) THEN {text}
         ELSE {Text("invalid")}
    ELSE {text, Text("invalid")}

\* One I/O fault per handler at most: the exception it raises leaves the
\* handler. at = 0 is no fault; at = k strikes the k-th open-for-writing:
\* "open" fails before truncating, "dump" after (the file is left truncated).
\* FaultsWithin(n): the faults that can strike a handler that opens the file
\* for writing at most n times.
NoFault == [at |-> 0, how |-> "none"]
FaultsWithin(n) ==
    {NoFault} \cup {[at |-> k, how |-> h] : k \in 1..n, h \in {"open", "dump"}}
\* How often a call on this file opens it for writing: once if loading it
\* writes the default document, and once more if the call itself writes.
Rewrites(file, writing) ==
    (IF file.kind \in {"absent", "invalid", "empty", "missingkey"} THEN 1 ELSE 0)
    + (IF writing /\ file.kind # "nonobject" THEN 1 ELSE 0)

\* with open(profiles_file, 'w') as outfile: json.dump(content, outfile)
open_w_dump(file, content, nth, fault) ==
    IF fault.at # nth THEN [file |-> content, exc |-> "none", writes |-> 1]
    ELSE IF fault.how = "open" THEN [file |-> file, exc |-> "OSError", writes |-> 0]
    ELSE [file |-> Text("empty"), exc |-> "OSError", writes |-> 1]

\* json.load(f); file_data['active_profile']; file_data['profiles']
json_load(file) ==
    CASE file.kind = "doc" -> [exc |-> "none", data |-> file.doc]
      [] file.kind \in {"invalid", "empty"} -> [exc |-> "ValueError"]
      [] file.kind = "missingkey" -> [exc |-> "KeyError"]
      [] file.kind = "nonobject" -> [exc |-> "TypeError"]

_create_default_file(file, fault) ==
    LET w == open_w_dump(file, json_dump(profiles_default_data), 1, fault)
    IN  [file |-> w.file, dir |-> TRUE, exc |-> w.exc, writes |-> w.writes,
         ret |-> IF w.exc = "none" THEN profiles_default_data ELSE NoReturn]

\* A load that forgets the existence check and always writes the default.
get_profiles_data_always_creates(file, dir, fault) ==
    _create_default_file(file, fault)

get_profiles_data(file, dir, fault) ==
    IF file.kind = "absent" THEN _create_default_file(file, fault)
    ELSE LET p == json_load(file)
         IN  IF p.exc = "none"
             THEN [file |-> file, dir |-> dir, exc |-> "none", writes |-> 0,
                   ret |-> p.data]
             ELSE IF p.exc \in {"ValueError", "KeyError"}
             THEN _create_default_file(file, fault)
             ELSE [file |-> file, dir |-> dir, exc |-> p.exc, writes |-> 0,
                   ret |-> NoReturn]

get_active_user_id(file, dir, fault) ==
    LET r == get_profiles_data(file, dir, fault)
    IN  IF r.exc # "none" THEN r
        ELSE [r EXCEPT !.ret = ToRet(r.ret.active_profile)]

\* A reader that looks the active id up without testing that it is a key.
get_active_profile_unchecked(file, dir, fault) ==
    LET r == get_profiles_data(file, dir, fault)
    IN  IF r.exc # "none" THEN r
        ELSE LET user_id == r.ret.active_profile
                 profiles == r.ret.profiles
             IN  IF Falsy(user_id) THEN [r EXCEPT !.ret = PyNone]
                 ELSE IF user_id \notin DOMAIN profiles
                 THEN [r EXCEPT !.exc = "KeyError", !.ret = NoReturn]
                 ELSE [r EXCEPT !.ret = [username |-> profiles[user_id].username,
                                         token |-> profiles[user_id].token,
                                         user_id |-> user_id]]

\* A reader that writes the document back with the user_id it has added to
\* the active profile.
get_active_profile_persists_user_id(file, dir, fault) ==
    LET r == get_profiles_data(file, dir, fault)
    IN  IF r.exc # "none" THEN r
        ELSE LET user_id == r.ret.active_profile
                 profiles == r.ret.profiles
             IN  IF Falsy(user_id) \/ user_id \notin DOMAIN profiles
                 THEN [r EXCEPT !.ret = PyNone]
                 ELSE LET profile == [username |-> profiles[user_id].username,
                                      token |-> profiles[user_id].token,
                                      user_id |-> user_id]
                          w == open_w_dump(
                                   r.file,
                                   json_dump(Doc(user_id,
                                                 [k \in DOMAIN profiles |->
                                                     IF k = user_id THEN profile
                                                     ELSE profiles[k]])),
                                   r.writes + 1, fault)
                      IN  [file |-> w.file, dir |-> r.dir, exc |-> w.exc,
                           writes |-> r.writes + w.writes,
                           ret |-> IF w.exc = "none" THEN profile ELSE NoReturn]

get_active_profile(file, dir, fault) ==
    LET r == get_profiles_data(file, dir, fault)
    IN  IF r.exc # "none" THEN r
        ELSE LET user_id == r.ret.active_profile
                 profiles == r.ret.profiles
             IN  IF Falsy(user_id) \/ user_id \notin DOMAIN profiles
                 THEN [r EXCEPT !.ret = PyNone]
                 ELSE [r EXCEPT !.ret = [username |-> profiles[user_id].username,
                                         token |-> profiles[user_id].token,
                                         user_id |-> user_id]]

get_profile(file, dir, fault, user_id) ==
    LET r == get_profiles_data(file, dir, fault)
    IN  IF r.exc # "none" THEN r
        ELSE LET profiles == r.ret.profiles
             IN  IF Falsy(user_id) \/ user_id \notin DOMAIN profiles
                 THEN [r EXCEPT !.ret = PyNone]
                 ELSE [r EXCEPT !.ret = [username |-> profiles[user_id].username,
                                         token |-> profiles[user_id].token]]

\* A save that writes the document back with the active id it has read.
save_as_active_profile_keeps_active(file, dir, fault, user_id, token, username) ==
    LET r == get_profiles_data(file, dir, fault)
    IN  IF r.exc # "none" THEN r
        ELSE LET old == r.ret.profiles
                 profiles == [k \in DOMAIN old \cup {user_id} |->
                                 IF k = user_id THEN Profile(username, token)
                                 ELSE old[k]]
                 w == open_w_dump(r.file,
                                  json_dump(Doc(r.ret.active_profile, profiles)),
                                  r.writes + 1, fault)
             IN  [file |-> w.file, dir |-> r.dir, exc |-> w.exc,
                  writes |-> r.writes + w.writes,
                  ret |-> IF w.exc = "none" THEN PyNone ELSE NoReturn]

\* A save that writes only the profile it was given, dropping the others.
save_as_active_profile_drops_others(file, dir, fault, user_id, token, username) ==
    LET r == get_profiles_data(file, dir, fault)
    IN  IF r.exc # "none" THEN r
        ELSE LET profiles == [k \in {user_id} |-> Profile(username, token)]
                 w == open_w_dump(r.file, json_dump(Doc(user_id, profiles)),
                                  r.writes + 1, fault)
             IN  [file |-> w.file, dir |-> r.dir, exc |-> w.exc,
                  writes |-> r.writes + w.writes,
                  ret |-> IF w.exc = "none" THEN PyNone ELSE NoReturn]

save_as_active_profile(file, dir, fault, user_id, token, username) ==
    LET r == get_profiles_data(file, dir, fault)
    IN  IF r.exc # "none" THEN r
        ELSE LET old == r.ret.profiles
                 profiles == [k \in DOMAIN old \cup {user_id} |->
                                 IF k = user_id THEN Profile(username, token)
                                 ELSE old[k]]
                 w == open_w_dump(r.file, json_dump(Doc(user_id, profiles)),
                                  r.writes + 1, fault)
             IN  [file |-> w.file, dir |-> r.dir, exc |-> w.exc,
                  writes |-> r.writes + w.writes,
                  ret |-> IF w.exc = "none" THEN PyNone ELSE NoReturn]

\* The document save_as_active_profile writes, from the one it has loaded.
saved_document(data, user_id, token, username) ==
    Doc(user_id, [k \in DOMAIN data.profiles \cup {user_id} |->
                     IF k = user_id THEN Profile(username, token)
                     ELSE data.profiles[k]])

\* The document logout writes, from the one it has loaded.
logged_out_document(file_content, user_id) ==
    Doc(IF file_content.active_profile = user_id THEN ""
        ELSE file_content.active_profile,
        [k \in DOMAIN file_content.profiles \ {user_id} |->
            file_content.profiles[k]])

\* A logout that clears the active id whoever is logged out.
logout_clears_any_active(file, dir, fault, user_id) ==
    LET r == get_profiles_data(file, dir, fault)
    IN  IF r.exc # "none" THEN r
        ELSE LET old == r.ret.profiles
                 profiles == [k \in DOMAIN old \ {user_id} |-> old[k]]
                 w == open_w_dump(r.file, json_dump(Doc("", profiles)),
                                  r.writes + 1, fault)
             IN  [file |-> w.file, dir |-> r.dir, exc |-> w.exc,
                  writes |-> r.writes + w.writes,
                  ret |-> IF w.exc = "none" THEN PyNone ELSE NoReturn]

\* A logout that removes the profile and leaves the active id as it was.
logout_keeps_active(file, dir, fault, user_id) ==
    LET r == get_profiles_data(file, dir, fault)
    IN  IF r.exc # "none" THEN r
        ELSE LET file_content == r.ret
                 old == file_content.profiles
                 profiles == [k \in DOMAIN old \ {user_id} |-> old[k]]
                 w == open_w_dump(r.file,
                                  json_dump(Doc(file_content.active_profile, profiles)),
                                  r.writes + 1, fault)
             IN  [file |-> w.file, dir |-> r.dir, exc |-> w.exc,
                  writes |-> r.writes + w.writes,
                  ret |-> IF w.exc = "none" THEN PyNone ELSE NoReturn]

logout(file, dir, fault, user_id) ==
    LET r == get_profiles_data(file, dir, fault)
    IN  IF r.exc # "none" THEN r
        ELSE LET file_content == r.ret
                 active == IF file_content.active_profile = user_id THEN ""
                           ELSE file_content.active_profile
                 old == file_content.profiles
                 profiles == [k \in DOMAIN old \ {user_id} |-> old[k]]
                 w == open_w_dump(r.file, json_dump(Doc(active, profiles)),
                                  r.writes + 1, fault)
             IN  [file |-> w.file, dir |-> r.dir, exc |-> w.exc,
                  writes |-> r.writes + w.writes,
                  ret |-> IF w.exc = "none" THEN PyNone ELSE NoReturn]

(***************************************************************************)
(* The authentication client (blender_id/api.py)                           *)
(***************************************************************************)

HTTP_OK == 200
StatusCodes == {HTTP_OK, 500}

\* requests.post either raises or returns a response (status code and body).
\* ConnectionError stands for the classes the client catches (SSLError is a
\* subclass of it; HTTPError is never raised by requests.post itself);
\* ChunkedEncodingError stands for the RequestException subclasses it does not.
CaughtTransportErrors == {"ConnectionError"}
TransportErrors == CaughtTransportErrors \cup {"ChunkedEncodingError"}
TransportFailure(e) == [transport |-> e]
Response(code, body) == [transport |-> "ok", status_code |-> code, body |-> body]

\* Response bodies, by what r.json() and the look-ups on it tell apart.
NotJson == [kind |-> "notjson"]
JsonNoStatus == [kind |-> "json", status |-> None]
JsonStatus(s) == [kind |-> "json", status |-> s]
IdentifySuccess(u, t) ==
    [kind |-> "json", status |-> "success", has_data |-> TRUE, user_id |-> u,
     access_token |-> t]
IdentifySuccessNoData == [kind |-> "json", status |-> "success", has_data |-> FALSE]
IdentifyFail(flagged) == [kind |-> "json", status |-> "fail", flagged |-> flagged]

IdentifyBodies ==
    {NotJson, JsonNoStatus, IdentifySuccessNoData, JsonStatus("error")}
    \cup {IdentifySuccess(u, t) : u \in RawUserIds, t \in Tokens}
    \cup {IdentifyFail(f) : f \in SUBSET {"username", "password"}}

IdentifyExchanges ==
    {TransportFailure(e) : e \in TransportErrors}
    \cup {Response(HTTP_OK, b) : b \in IdentifyBodies}
    \cup {Response(c, NotJson) : c \in StatusCodes \ {HTTP_OK}}

DeleteTokenBodies == {NotJson, JsonNoStatus, JsonStatus("success"), JsonStatus("fail")}

DeleteTokenExchanges ==
    {TransportFailure(e) : e \in TransportErrors}
    \cup {Response(HTTP_OK, b) : b \in DeleteTokenBodies}
    \cup {Response(c, NotJson) : c \in StatusCodes \ {HTTP_OK}}

\* str(e) of a transport exception: a non-empty description.
TransportMessage(e) == e
\* "... Error type is: %s" % type(e).__name__
ConnectionProblemMessage(e) ==
    IF e = "ConnectionError"
    THEN "There was a problem setting up a connection to the server. Error type is: ConnectionError"
    ELSE "There was a problem setting up a connection to the server. Error type is: SSLError"
\* "... Error code is: %s" % r.status_code
StatusCodeMessage(code) ==
    IF code = 500
    THEN "There was a problem communicating with the server. Error code is: 500"
    ELSE "There was a problem communicating with the server. Error code is: 200"

AuthResult(status, user_id, token, error_message) ==
    [status |-> status, user_id |-> user_id, token |-> token,
     error_message |-> error_message]

Returned(v) == [exc |-> "none", ret |-> v]
Raised(e) == [exc |-> e, ret |-> NoReturn]

\* x is what the HTTP exchange does; username and password only travel in
\* the request payload.
blender_id_server_authenticate(x) ==
    IF x.transport # "ok"
    THEN IF x.transport \in CaughtTransportErrors
         THEN Returned(AuthResult("fail", None, None, TransportMessage(x.transport)))
         ELSE Raised(x.transport)
    ELSE IF x.status_code = HTTP_OK
    THEN LET resp == x.body
         IN  IF resp.kind = "notjson" THEN Raised("ValueError")
             ELSE IF resp.status = None THEN Raised("KeyError")
             ELSE IF resp.status = "success"
             THEN IF resp.has_data
                  THEN Returned(AuthResult("success", str(resp.user_id),
                                           resp.access_token, None))
                  ELSE Raised("KeyError")
             ELSE IF resp.status = "fail"
             THEN IF "username" \in resp.flagged
                  THEN Returned(AuthResult("fail", None, None,
                                           "Username does not exist"))
                  ELSE IF "password" \in resp.flagged
                  THEN Returned(AuthResult("fail", None, None,
                                           "Password does not match!"))
                  ELSE Returned(AuthResult("fail", None, None, None))
             ELSE Returned(AuthResult(resp.status, None, None, None))
    ELSE Returned(AuthResult("fail", None, None, StatusCodeMessage(x.status_code)))

blender_id_server_logout(x) ==
    IF x.transport # "ok"
    THEN IF x.transport \in CaughtTransportErrors
         THEN Returned([status |-> "fail",
                        error_message |-> ConnectionProblemMessage(x.transport)])
         ELSE Raised(x.transport)
    ELSE IF x.status_code # HTTP_OK
    THEN Returned([status |-> "fail",
                   error_message |-> StatusCodeMessage(x.status_code)])
    ELSE LET resp == x.body
         IN  IF resp.kind = "notjson" THEN Raised("ValueError")
             ELSE IF resp.status = None THEN Raised("KeyError")
             ELSE Returned([status |-> resp.status, error_message |-> None])

(***************************************************************************)
(* State                                                                   *)
(***************************************************************************)

VARIABLES
    file,                   \* contents of profiles.json
    dir,                    \* whether the blender_id config directory exists
    unique_id,              \* session handle: blender_id_active_profile.unique_id
    token,                  \* session handle: blender_id_active_profile.token
    blender_id_username,    \* preferences: the Username field
    blender_id_password,    \* preferences: the Password field
    error_message,          \* preferences: the error shown
    ok_message,             \* preferences: the message shown
    last,                   \* the most recent call: what, with what, on what
                            \* kind of file, and how it ended
    proc,                   \* per process sharing the file: where it is in
                            \* its store call and what it holds
    wrote,                  \* the most recent write that went through
    logged_out              \* the users whose logout(u) has returned with no
                            \* save_as_active_profile(u, ...) under way then
                            \* or called since

store == <<file, dir>>
handle == <<unique_id, token>>
prefs == <<blender_id_username, blender_id_password, error_message, ok_message>>
processes == <<proc, wrote, logged_out>>
vars == <<file, dir, unique_id, token, blender_id_username, blender_id_password,
          error_message, ok_message, last, proc, wrote, logged_out>>

NoArgs == [none |-> TRUE]

\* Two Blender processes of one user share profiles.json.
Procs == {"p", "q"}
NoDoc == [none |-> TRUE]
IdleProc ==
    [pc |-> "idle", op |-> "none", args |-> NoArgs, found |-> "none",
     during |-> FALSE, data |-> NoDoc, content |-> NoDoc]
NoWrite == [by |-> "none", op |-> "none", content |-> NoDoc]

Call(op, args, r) ==
    [op |-> op, args |-> args, found |-> file.kind, exc |-> r.exc, ret |-> r.ret,
     writes |-> r.writes]

\* The profiles module has been imported (which creates the directory) in an
\* environment with no store file; the properties are at the defaults of a
\* session with no active profile.
Init ==
    /\ file = Absent
    /\ dir = TRUE
    /\ unique_id = ""
    /\ token = ""
    /\ blender_id_username = ""
    /\ blender_id_password = ""
    /\ error_message = ""
    /\ ok_message = ""
    /\ last = [op |-> "init", args |-> NoArgs, found |-> "absent", exc |-> "none",
               ret |-> PyNone, writes |-> 0]
    /\ proc = [p \in Procs |-> IdleProc]
    /\ wrote = NoWrite
    /\ logged_out = {}

(***************************************************************************)
(* The store API, called directly (profiles is a public module)            *)
(***************************************************************************)

StoreCall(op, args, r) ==
    /\ file' = r.file
    /\ dir' = r.dir
    /\ last' = Call(op, args, r)
    /\ UNCHANGED <<handle, prefs, processes>>

GetProfilesData ==
    \E fault \in FaultsWithin(Rewrites(file, FALSE)) :
        StoreCall("get_profiles_data", NoArgs, get_profiles_data(file, dir, fault))

GetActiveUserId ==
    \E fault \in FaultsWithin(Rewrites(file, FALSE)) :
        StoreCall("get_active_user_id", NoArgs, get_active_user_id(file, dir, fault))

GetActiveProfile ==
    \E fault \in FaultsWithin(Rewrites(file, FALSE)) :
        StoreCall("get_active_profile", NoArgs, get_active_profile(file, dir, fault))

GetProfile ==
    \E fault \in FaultsWithin(Rewrites(file, FALSE)), u \in UserIds :
        StoreCall("get_profile", [user_id |-> u], get_profile(file, dir, fault, u))

SaveAsActiveProfile ==
    \E fault \in FaultsWithin(Rewrites(file, TRUE)), u \in UserIds, t \in Tokens, n \in Usernames :
        StoreCall("save_as_active_profile",
                  [user_id |-> u, token |-> t, username |-> n],
                  save_as_active_profile(file, dir, fault, u, t, n))

ProfilesLogout ==
    \E fault \in FaultsWithin(Rewrites(file, TRUE)), u \in UserIds :
        StoreCall("profiles.logout", [user_id |-> u], logout(file, dir, fault, u))

(***************************************************************************)
(* The environment: profiles.json is an ordinary file                      *)
(***************************************************************************)

EnvCall ==
    [op |-> "env", args |-> NoArgs, found |-> file.kind, exc |-> "none",
     ret |-> PyNone, writes |-> 0]

\* Something else overwrites the file with content that is not a document.
EnvCorrupt ==
    \E k \in CorruptKinds :
        /\ dir
        /\ file' = Text(k)
        /\ last' = EnvCall
        /\ UNCHANGED <<dir, handle, prefs, processes>>

\* The file, or the whole directory, is removed.
EnvRemove ==
    \E d \in BOOLEAN :
        /\ file' = Absent
        /\ dir' = (dir /\ d)
        /\ last' = EnvCall
        /\ UNCHANGED <<handle, prefs, processes>>

\* A manual edit of active_profile in a well-formed file.
EnvSetActive ==
    \E a \in {None} \cup UserIds :
        /\ file.kind = "doc"
        /\ file' = json_dump(Doc(a, file.doc.profiles))
        /\ last' = EnvCall
        /\ UNCHANGED <<dir, handle, prefs, processes>>

(***************************************************************************)
(* The operators (blender_id/__init__.py)                                  *)
(***************************************************************************)

\* ''.join(random.choice(string.ascii_uppercase + string.digits)
\*         for _ in range(pwlen + 16)): a string of pwlen + 16 characters.
\* The draws are shown by two strings, one of letters and one of digits.
RandomPadding == 16
RandomChars == {"A", "7"}
RECURSIVE Repeat(_, _)
Repeat(c, n) == IF n = 0 THEN "" ELSE c \o Repeat(c, n - 1)
RandomStrings(password) ==
    {Repeat(c, Len(password) + RandomPadding) : c \in RandomChars}

\* The properties an operator works on: the session handle and the preferences.
Props ==
    [unique_id |-> unique_id, token |-> token,
     blender_id_username |-> blender_id_username,
     blender_id_password |-> blender_id_password,
     error_message |-> error_message, ok_message |-> ok_message]

reset_messages(p) == [p EXCEPT !.ok_message = "", !.error_message = ""]

\* What a handler leaves behind: the file, the properties, the exception
\* that left it (if any), the client's answer and the store writes it made.
Outcome(f, d, p, exc, resp, writes, steps) ==
    [file |-> f, dir |-> d, props |-> p, exc |-> exc, resp |-> resp,
     writes |-> writes, steps |-> steps]

\* The steps of a handler that reach outside it or assign a property, in the
\* order the handler takes them (a step that raises is the last one).
Step(name, vals) == [step |-> name, vals |-> vals]

\* A login that takes every status but "fail" for success.
BlenderIdLogin_execute_unless_fail(f, d, p, x, fault, rnd) ==
    LET addon_prefs == reset_messages(p)
        resp == blender_id_server_authenticate(x)
        authenticate == Step("blender_id_server_authenticate",
                             [username |-> addon_prefs.blender_id_username,
                              password |-> addon_prefs.blender_id_password])
    IN  IF resp.exc # "none"
        THEN Outcome(f, d, addon_prefs, resp.exc, resp, 0, <<authenticate>>)
        ELSE IF resp.ret.status # "fail"
        THEN LET \* the password is overwritten with a random string, then ''
                 overwritten == [addon_prefs EXCEPT
                                    !.unique_id = resp.ret.user_id,
                                    !.token = resp.ret.token,
                                    !.blender_id_password = rnd]
                 logged_in == [overwritten EXCEPT !.blender_id_password = ""]
                 s == save_as_active_profile(f, d, fault, resp.ret.user_id,
                                             resp.ret.token,
                                             addon_prefs.blender_id_username)
             IN  Outcome(s.file, s.dir, logged_in, s.exc, resp, s.writes,
                         <<authenticate,
                           Step("set_handle", [unique_id |-> resp.ret.user_id,
                                               token |-> resp.ret.token]),
                           Step("overwrite_password",
                                [value |-> overwritten.blender_id_password]),
                           Step("clear_password",
                                [value |-> logged_in.blender_id_password]),
                           Step("profiles.save_as_active_profile",
                                [user_id |-> resp.ret.user_id, token |-> resp.ret.token,
                                 username |-> addon_prefs.blender_id_username])>>)
        ELSE Outcome(f, d,
                     [addon_prefs EXCEPT !.error_message = resp.ret.error_message],
                     "none", resp, 0,
                     <<authenticate,
                       Step("set_error_message",
                            [value |-> resp.ret.error_message])>>)

\* A login that hands the token and the user id to the store in each
\* other's place.
BlenderIdLogin_execute_swapped(f, d, p, x, fault, rnd) ==
    LET addon_prefs == reset_messages(p)
        resp == blender_id_server_authenticate(x)
        authenticate == Step("blender_id_server_authenticate",
                             [username |-> addon_prefs.blender_id_username,
                              password |-> addon_prefs.blender_id_password])
    IN  IF resp.exc # "none"
        THEN Outcome(f, d, addon_prefs, resp.exc, resp, 0, <<authenticate>>)
        ELSE IF resp.ret.status = "success"
        THEN LET \* the password is overwritten with a random string, then ''
                 overwritten == [addon_prefs EXCEPT
                                    !.unique_id = resp.ret.user_id,
                                    !.token = resp.ret.token,
                                    !.blender_id_password = rnd]
                 logged_in == [overwritten EXCEPT !.blender_id_password = ""]
                 s == save_as_active_profile(f, d, fault, resp.ret.token,
                                             resp.ret.user_id,
                                             addon_prefs.blender_id_username)
             IN  Outcome(s.file, s.dir, logged_in, s.exc, resp, s.writes,
                         <<authenticate,
                           Step("set_handle", [unique_id |-> resp.ret.user_id,
                                               token |-> resp.ret.token]),
                           Step("overwrite_password",
                                [value |-> overwritten.blender_id_password]),
                           Step("clear_password",
                                [value |-> logged_in.blender_id_password]),
                           Step("profiles.save_as_active_profile",
                                [user_id |-> resp.ret.token, token |-> resp.ret.user_id,
                                 username |-> addon_prefs.blender_id_username])>>)
        ELSE Outcome(f, d,
                     [addon_prefs EXCEPT !.error_message = resp.ret.error_message],
                     "none", resp, 0,
                     <<authenticate,
                       Step("set_error_message",
                            [value |-> resp.ret.error_message])>>)

\* A login that only resets the password field to empty, with no overwrite.
BlenderIdLogin_execute_only_clears(f, d, p, x, fault, rnd) ==
    LET addon_prefs == reset_messages(p)
        resp == blender_id_server_authenticate(x)
        authenticate == Step("blender_id_server_authenticate",
                             [username |-> addon_prefs.blender_id_username,
                              password |-> addon_prefs.blender_id_password])
    IN  IF resp.exc # "none"
        THEN Outcome(f, d, addon_prefs, resp.exc, resp, 0, <<authenticate>>)
        ELSE IF resp.ret.status = "success"
        THEN LET \* the password is overwritten with a random string, then ''
                 overwritten == [addon_prefs EXCEPT
                                    !.unique_id = resp.ret.user_id,
                                    !.token = resp.ret.token,
                                    !.blender_id_password =
                                        addon_prefs.blender_id_password]
                 logged_in == [overwritten EXCEPT !.blender_id_password = ""]
                 s == save_as_active_profile(f, d, fault, resp.ret.user_id,
                                             resp.ret.token,
                                             addon_prefs.blender_id_username)
             IN  Outcome(s.file, s.dir, logged_in, s.exc, resp, s.writes,
                         <<authenticate,
                           Step("set_handle", [unique_id |-> resp.ret.user_id,
                                               token |-> resp.ret.token]),
                           Step("clear_password",
                                [value |-> logged_in.blender_id_password]),
                           Step("profiles.save_as_active_profile",
                                [user_id |-> resp.ret.user_id, token |-> resp.ret.token,
                                 username |-> addon_prefs.blender_id_username])>>)
        ELSE Outcome(f, d,
                     [addon_prefs EXCEPT !.error_message = resp.ret.error_message],
                     "none", resp, 0,
                     <<authenticate,
                       Step("set_error_message",
                            [value |-> resp.ret.error_message])>>)

\* BlenderIdLogin.execute; x is what the HTTP exchange does.
BlenderIdLogin_execute(f, d, p, x, fault, rnd) ==
    LET addon_prefs == reset_messages(p)
        resp == blender_id_server_authenticate(x)
        authenticate == Step("blender_id_server_authenticate",
                             [username |-> addon_prefs.blender_id_username,
                              password |-> addon_prefs.blender_id_password])
    IN  IF resp.exc # "none"
        THEN Outcome(f, d, addon_prefs, resp.exc, resp, 0, <<authenticate>>)
        ELSE IF resp.ret.status = "success"
        THEN LET \* the password is overwritten with a random string, then ''
                 overwritten == [addon_prefs EXCEPT
                                    !.unique_id = resp.ret.user_id,
                                    !.token = resp.ret.token,
                                    !.blender_id_password = rnd]
                 logged_in == [overwritten EXCEPT !.blender_id_password = ""]
                 s == save_as_active_profile(f, d, fault, resp.ret.user_id,
                                             resp.ret.token,
                                             addon_prefs.blender_id_username)
             IN  Outcome(s.file, s.dir, logged_in, s.exc, resp, s.writes,
                         <<authenticate,
                           Step("set_handle", [unique_id |-> resp.ret.user_id,
                                               token |-> resp.ret.token]),
                           Step("overwrite_password",
                                [value |-> overwritten.blender_id_password]),
                           Step("clear_password",
                                [value |-> logged_in.blender_id_password]),
                           Step("profiles.save_as_active_profile",
                                [user_id |-> resp.ret.user_id, token |-> resp.ret.token,
                                 username |-> addon_prefs.blender_id_username])>>)
        ELSE Outcome(f, d,
                     [addon_prefs EXCEPT !.error_message = resp.ret.error_message],
                     "none", resp, 0,
                     <<authenticate,
                       Step("set_error_message",
                            [value |-> resp.ret.error_message])>>)

\* A logout that empties the handle first and works with the emptied values.
BlenderIdLogout_execute_clears_first(f, d, p, x, fault) ==
    LET addon_prefs == [reset_messages(p) EXCEPT !.unique_id = "", !.token = ""]
        resp == blender_id_server_logout(x)
        revoke == Step("blender_id_server_logout",
                       [user_id |-> addon_prefs.unique_id,
                        token |-> addon_prefs.token])
        store_logout == Step("profiles.logout", [user_id |-> addon_prefs.unique_id])
        clear == Step("clear_handle", NoArgs)
    IN  IF resp.exc # "none"
        THEN Outcome(f, d, addon_prefs, resp.exc, resp, 0, <<clear, revoke>>)
        ELSE LET s == logout(f, d, fault, addon_prefs.unique_id)
             IN  Outcome(s.file, s.dir, addon_prefs, s.exc, resp, s.writes,
                         <<clear, revoke, store_logout>>)

\* A logout that takes the user to log out from the store's active id when
\* there is one, and from the handle otherwise.
BlenderIdLogout_execute_logs_out_active(f, d, p, x, fault) ==
    LET addon_prefs == reset_messages(p)
        resp == blender_id_server_logout(x)
        user_id == IF f.kind = "doc" /\ ~Falsy(f.doc.active_profile)
                   THEN f.doc.active_profile ELSE addon_prefs.unique_id
        revoke == Step("blender_id_server_logout",
                       [user_id |-> addon_prefs.unique_id,
                        token |-> addon_prefs.token])
        store_logout == Step("profiles.logout", [user_id |-> user_id])
        clear == Step("clear_handle", NoArgs)
    IN  IF resp.exc # "none"
        THEN Outcome(f, d, addon_prefs, resp.exc, resp, 0, <<revoke>>)
        ELSE LET s == logout(f, d, fault, user_id)
             IN  IF s.exc # "none"
                 THEN Outcome(s.file, s.dir, addon_prefs, s.exc, resp, s.writes,
                              <<revoke, store_logout>>)
                 ELSE Outcome(s.file, s.dir,
                              [addon_prefs EXCEPT !.unique_id = "", !.token = ""],
                              "none", resp, s.writes,
                              <<revoke, store_logout, clear>>)

\* BlenderIdLogout.execute
BlenderIdLogout_execute(f, d, p, x, fault) ==
    LET addon_prefs == reset_messages(p)
        resp == blender_id_server_logout(x)
        revoke == Step("blender_id_server_logout",
                       [user_id |-> addon_prefs.unique_id,
                        token |-> addon_prefs.token])
        store_logout == Step("profiles.logout", [user_id |-> addon_prefs.unique_id])
        clear == Step("clear_handle", NoArgs)
    IN  IF resp.exc # "none"
        THEN Outcome(f, d, addon_prefs, resp.exc, resp, 0, <<revoke>>)
        ELSE LET s == logout(f, d, fault, addon_prefs.unique_id)
             IN  IF s.exc # "none"
                 THEN Outcome(s.file, s.dir, addon_prefs, s.exc, resp, s.writes,
                              <<revoke, store_logout>>)
                 ELSE Outcome(s.file, s.dir,
                              [addon_prefs EXCEPT !.unique_id = "", !.token = ""],
                              "none", resp, s.writes,
                              <<revoke, store_logout, clear>>)

\* communication.blender_id_server_validate(token): None when the service
\* still accepts the token, a reason otherwise.
ValidateExchanges == {"accepted", "rejected"}
blender_id_server_validate(x) ==
    IF x = "accepted" THEN Returned(PyNone)
    ELSE Returned(PyStr("Token is not valid"))

\* A validation that drops the session when the token is rejected.
BlenderIdValidate_execute_logs_out(f, d, p, x) ==
    LET addon_prefs == reset_messages(p)
        resp == blender_id_server_validate(x)
        validate == Step("blender_id_server_validate", [token |-> addon_prefs.token])
    IN  IF resp.ret = PyNone
        THEN Outcome(f, d,
                     [addon_prefs EXCEPT
                         !.ok_message = "Authentication token is valid."],
                     "none", resp, 0,
                     <<validate, Step("set_ok_message", NoArgs)>>)
        ELSE Outcome(f, d,
                     [addon_prefs EXCEPT
                         !.unique_id = "", !.token = "",
                         !.error_message =
                             resp.ret.v \o "; you probably want to log out and log in again."],
                     "none", resp, 0,
                     <<validate, Step("set_error_message", NoArgs)>>)

\* BlenderIdValidate.execute
BlenderIdValidate_execute(f, d, p, x) ==
    LET addon_prefs == reset_messages(p)
        resp == blender_id_server_validate(x)
        validate == Step("blender_id_server_validate", [token |-> addon_prefs.token])
    IN  IF resp.ret = PyNone
        THEN Outcome(f, d,
                     [addon_prefs EXCEPT
                         !.ok_message = "Authentication token is valid."],
                     "none", resp, 0,
                     <<validate, Step("set_ok_message", NoArgs)>>)
        ELSE Outcome(f, d,
                     [addon_prefs EXCEPT
                         !.error_message =
                             resp.ret.v \o "; you probably want to log out and log in again."],
                     "none", resp, 0,
                     <<validate, Step("set_error_message", NoArgs)>>)

\* Loading the add-on: importing profiles creates the directory (line 5 of
\* profiles.py); the class bodies of BlenderIdPreferences and BlenderIdProfile
\* each call get_active_profile() and make its answer the properties'
\* defaults. None of the properties is saved with the user preferences
\* (SKIP_SAVE), so each starts at its default. An exception leaves the
\* add-on unloaded: there are no properties, shown here as empty ones.
DefaultProps ==
    [unique_id |-> "", token |-> "", blender_id_username |-> "",
     blender_id_password |-> "", error_message |-> "", ok_message |-> ""]

NoResponse == [exc |-> "none", ret |-> PyNone]

BlenderIdProfile_defaults(f, d, fault) ==
    LET prefs_profile == get_active_profile(f, TRUE, fault)
    IN  IF prefs_profile.exc # "none"
        THEN Outcome(prefs_profile.file, prefs_profile.dir, DefaultProps,
                     prefs_profile.exc, NoResponse, prefs_profile.writes, << >>)
        ELSE LET r == get_active_profile(prefs_profile.file, prefs_profile.dir, fault)
                 p_username == IF prefs_profile.ret = PyNone THEN ""
                               ELSE prefs_profile.ret.username
                 p_user_id == IF r.ret = PyNone THEN "" ELSE r.ret.user_id
                 p_token == IF r.ret = PyNone THEN "" ELSE r.ret.token
             IN  Outcome(r.file, r.dir,
                         [DefaultProps EXCEPT !.unique_id = p_user_id,
                                              !.token = p_token,
                                              !.blender_id_username = p_username],
                         r.exc, NoResponse, prefs_profile.writes + r.writes,
                         << >>)

OperatorCall(op, args, o) ==
    /\ file' = o.file
    /\ dir' = o.dir
    /\ unique_id' = o.props.unique_id
    /\ token' = o.props.token
    /\ blender_id_username' = o.props.blender_id_username
    /\ blender_id_password' = o.props.blender_id_password
    /\ error_message' = o.props.error_message
    /\ ok_message' = o.props.ok_message
    /\ last' = [op |-> op, args |-> args, found |-> file.kind, exc |-> o.exc,
                ret |-> PyNone, writes |-> o.writes, resp |-> o.resp,
                steps |-> o.steps]
    /\ UNCHANGED processes

\* The user fills in the Username and Password fields, which the panel
\* shows only while the handle is empty (BlenderIdPreferences.draw).
EnterCredentials ==
    \E n \in EnteredUsernames, pw \in Passwords :
        /\ unique_id = ""
        /\ blender_id_username' = n
        /\ blender_id_password' = pw
        /\ last' = [op |-> "enter", args |-> NoArgs, found |-> file.kind,
                    exc |-> "none", ret |-> PyNone, writes |-> 0]
        /\ UNCHANGED <<store, handle, error_message, ok_message, processes>>

\* The store is reached, and the random string drawn, only when the client
\* returned success.
Login ==
    \E x \in IdentifyExchanges :
      \E fault \in IF blender_id_server_authenticate(x).exc = "none"
                      /\ blender_id_server_authenticate(x).ret.status = "success"
                   THEN FaultsWithin(Rewrites(file, TRUE)) ELSE {NoFault} :
      \E rnd \in IF blender_id_server_authenticate(x).exc = "none"
                    /\ blender_id_server_authenticate(x).ret.status = "success"
                 THEN RandomStrings(blender_id_password) ELSE {""} :
        OperatorCall("login",
                     [username |-> blender_id_username,
                      password |-> blender_id_password, exchange |-> x],
                     BlenderIdLogin_execute(file, dir, Props, x, fault, rnd))

\* The store is reached only when the client returned.
Logout ==
    \E x \in DeleteTokenExchanges :
      \E fault \in IF blender_id_server_logout(x).exc = "none"
                   THEN FaultsWithin(Rewrites(file, TRUE)) ELSE {NoFault} :
        OperatorCall("logout",
                     [user_id |-> unique_id, token |-> token, exchange |-> x],
                     BlenderIdLogout_execute(file, dir, Props, x, fault))

Validate ==
    \E x \in ValidateExchanges :
        OperatorCall("validate", [token |-> token, exchange |-> x],
                     BlenderIdValidate_execute(file, dir, Props, x))

Restart ==
    \E fault \in FaultsWithin(Rewrites(file, FALSE)) :
        OperatorCall("restart", NoArgs, BlenderIdProfile_defaults(file, dir, fault))

\* The profile store on its own: its API and the environment.
Next ==
    \/ GetProfilesData
    \/ GetActiveUserId
    \/ GetActiveProfile
    \/ GetProfile
    \/ SaveAsActiveProfile
    \/ ProfilesLogout
    \/ EnvCorrupt
    \/ EnvRemove
    \/ EnvSetActive

Spec == Init /\ [][Next]_vars

\* The add-on in use: the operators, restarts and the environment.
SessionNext ==
    \/ EnterCredentials
    \/ Login
    \/ Logout
    \/ Validate
    \/ Restart
    \/ EnvCorrupt
    \/ EnvRemove
    \/ EnvSetActive

SessionSpec == Init /\ [][SessionNext]_vars

(***************************************************************************)
(* Two processes on one store file                                         *)
(*                                                                         *)
(* profiles.py takes no lock, so the calls of two processes interleave at  *)
(* their file operations: the read in get_profiles_data, each              *)
(* open(profiles_file, 'w') (which truncates) and each json.dump through   *)
(* the handle opened (written out when the with block closes it).          *)
(***************************************************************************)

StoreCalls ==
    {[op |-> "get_profiles_data", args |-> NoArgs]}
    \cup {[op |-> "save_as_active_profile",
           args |-> [user_id |-> u, token |-> t, username |-> n]] :
              u \in ServerUserIds, t \in Tokens, n \in EnteredUsernames}
    \cup {[op |-> "profiles.logout", args |-> [user_id |-> u]] : u \in ServerUserIds}

\* The document a mutating call writes back, from the one it has loaded.
Written(op, args, data) ==
    IF op = "save_as_active_profile"
    THEN saved_document(data, args.user_id, args.token, args.username)
    ELSE logged_out_document(data, args.user_id)

\* get_profiles_data has its document: a plain load returns it (the process
\* is idle again and holds nothing), a mutating call goes on to open the
\* file for writing.
Loaded(held, data) ==
    IF held.op = "get_profiles_data"
    THEN IdleProc
    ELSE [held EXCEPT !.pc = "open", !.data = data,
                      !.content = Written(held.op, held.args, data)]

MidWrite(q) == proc[q].pc \in {"default_dump", "dump"}

\* Process q is inside save_as_active_profile(u, ...).
Saving(q, u) ==
    proc[q].op = "save_as_active_profile" /\ proc[q].args.user_id = u

\* A process calls into the store: os.path.exists and, on an existing file,
\* open(profiles_file, 'r') and json.load.
ProcLoad ==
    \E p \in Procs, c \in StoreCalls :
        /\ proc[p].pc = "idle"
        /\ LET held == [IdleProc EXCEPT
                            !.op = c.op, !.args = c.args, !.found = file.kind,
                            !.during = \E q \in Procs \ {p} : MidWrite(q)]
           IN  proc' = [proc EXCEPT ![p] =
                   IF file.kind = "absent" THEN [held EXCEPT !.pc = "default_open"]
                   ELSE IF json_load(file).exc = "none"
                   THEN Loaded(held, json_load(file).data)
                   ELSE IF json_load(file).exc \in {"ValueError", "KeyError"}
                   THEN [held EXCEPT !.pc = "default_open"]
                   ELSE IdleProc]
        /\ logged_out' = IF c.op = "save_as_active_profile"
                         THEN logged_out \ {c.args.user_id} ELSE logged_out
        /\ UNCHANGED <<store, handle, prefs, last, wrote>>

\* _create_default_file: os.makedirs and open(profiles_file, 'w').
ProcDefaultOpen ==
    \E p \in Procs :
        /\ proc[p].pc = "default_open"
        /\ file' = Text("empty")
        /\ dir' = TRUE
        /\ proc' = [proc EXCEPT ![p].pc = "default_dump"]
        /\ UNCHANGED <<handle, prefs, last, wrote, logged_out>>

\* _create_default_file: json.dump(profiles_default_data, outfile), closed.
ProcDefaultDump ==
    \E p \in Procs :
        /\ proc[p].pc = "default_dump"
        /\ file' \in Overlays(json_dump(profiles_default_data), file)
        /\ wrote' = [by |-> p, op |-> "_create_default_file",
                     content |-> json_dump(profiles_default_data)]
        /\ proc' = [proc EXCEPT ![p] = Loaded(proc[p], profiles_default_data)]
        /\ UNCHANGED <<dir, handle, prefs, last, logged_out>>

\* save_as_active_profile, logout: open(profiles_file, 'w').
ProcOpen ==
    \E p \in Procs :
        /\ proc[p].pc = "open"
        /\ file' = Text("empty")
        /\ proc' = [proc EXCEPT ![p].pc = "dump"]
        /\ UNCHANGED <<dir, handle, prefs, last, wrote, logged_out>>

\* save_as_active_profile, logout: json.dump(..., outfile), closed.
ProcDump ==
    \E p \in Procs :
        /\ proc[p].pc = "dump"
        /\ file' \in Overlays(json_dump(proc[p].content), file)
        /\ wrote' = [by |-> p, op |-> proc[p].op,
                     content |-> json_dump(proc[p].content)]
        /\ proc' = [proc EXCEPT ![p] = IdleProc]
        /\ logged_out' = IF proc[p].op = "profiles.logout"
                            /\ ~\E q \in Procs \ {p} : Saving(q, proc[p].args.user_id)
                         THEN logged_out \cup {proc[p].args.user_id}
                         ELSE logged_out
        /\ UNCHANGED <<dir, handle, prefs, last>>

ConcurrentNext ==
    \/ ProcLoad
    \/ ProcDefaultOpen
    \/ ProcDefaultDump
    \/ ProcOpen
    \/ ProcDump

ConcurrentSpec == Init /\ [][ConcurrentNext]_vars

(***************************************************************************)
(* Properties of the profile store (checked under Spec)                    *)
(***************************************************************************)

SaveCompleted == last.op = "save_as_active_profile" /\ last.exc = "none"
SavedProfile == [username |-> last.args.username, token |-> last.args.token]

\* C1 as stated: after save_as_active_profile(u, t, n) has returned,
\* get_profile(u) hands back {username: n, token: t} and get_active_user_id()
\* hands back u, for every u, the empty string included.
C1_RoundTripEveryUserId ==
    SaveCompleted =>
        /\ get_profile(file, dir, NoFault, last.args.user_id).ret = SavedProfile
        /\ get_active_user_id(file, dir, NoFault).ret = PyStr(last.args.user_id)

\* C1 amended: after save_as_active_profile(u, t, n) has returned,
\* get_active_user_id() hands back u for every u; get_profile(u) hands back
\* {username: n, token: t} for every non-empty u and None for the empty u,
\* although the profile is on file under the key "".
C1_RoundTrip ==
    SaveCompleted =>
        /\ get_active_user_id(file, dir, NoFault).ret = PyStr(last.args.user_id)
        /\ get_active_user_id(file, dir, NoFault).exc = "none"
        /\ get_profile(file, dir, NoFault, last.args.user_id).exc = "none"
        /\ last.args.user_id # "" =>
               get_profile(file, dir, NoFault, last.args.user_id).ret = SavedProfile
        /\ last.args.user_id = "" =>
               /\ get_profile(file, dir, NoFault, "").ret = PyNone
               /\ file.doc.profiles[""] = SavedProfile

\* A save under a server-issued id that replaced another user's session.
C1_Witness ==
    /\ SaveCompleted
    /\ last.args.user_id = "1"
    /\ "2" \in DOMAIN file.doc.profiles
    /\ get_profile(file, dir, NoFault, "1").ret = SavedProfile

\* C5: logout(B) on a document with active_profile = A removes profiles[B]
\* if present and leaves every other entry as it was; active_profile stays A
\* when B # A and becomes "" when B = A; the document is written back even
\* when nothing changed.
C5_LogoutClearsActiveOnlyIfMatching ==
    [][(last'.op = "profiles.logout" /\ last'.exc = "none" /\ file.kind = "doc") =>
          LET A == file.doc.active_profile
              B == last'.args.user_id
              before == file.doc.profiles
              after == file'.doc.profiles
          IN  /\ file'.kind = "doc"
              /\ DOMAIN after = DOMAIN before \ {B}
              /\ \A k \in DOMAIN after : after[k] = before[k]
              /\ B # A => file'.doc.active_profile = A
              /\ B = A => file'.doc.active_profile = ""
              /\ last'.writes = 1]_vars

\* logout(B) has removed B's profile and left A active, with A's profile.
C5_Witness ==
    /\ last.op = "profiles.logout"
    /\ last.exc = "none"
    /\ last.args.user_id = "2"
    /\ file.kind = "doc"
    /\ file.doc.active_profile = "1"
    /\ DOMAIN file.doc.profiles = {"1"}

\* get_active_profile() answered from the document now on file: it wrote
\* nothing, so the file is the one it read.
ReadActiveProfile ==
    last.op = "get_active_profile" /\ last.writes = 0 /\ file.kind = "doc"

\* C6: on every store document get_active_profile() hands back None, and
\* raises nothing, when active_profile is None, empty or no key of profiles;
\* otherwise the stored profile with user_id = active_profile added.
C6_DanglingActiveReadsAsNoSession ==
    ReadActiveProfile =>
        LET a == file.doc.active_profile
            profiles == file.doc.profiles
        IN  /\ last.exc = "none"
            /\ (a = None \/ a = "" \/ a \notin DOMAIN profiles) => last.ret = PyNone
            /\ ~(a = None \/ a = "" \/ a \notin DOMAIN profiles) =>
                   last.ret = [username |-> profiles[a].username,
                               token |-> profiles[a].token, user_id |-> a]

\* A dangling reference, with another profile on file, read as no session.
C6_Witness ==
    /\ ReadActiveProfile
    /\ file.doc.active_profile = "1"
    /\ DOMAIN file.doc.profiles = {"2"}
    /\ last.ret = PyNone

\* C7 as stated: whatever an existing file holds that is not the expected
\* structure (invalid JSON, nothing, JSON that is no object, an object
\* without the keys), a load that meets no I/O fault raises nothing, hands
\* back the default document and leaves it in the file.
C7_SelfHealingLoad ==
    (last.op = "get_profiles_data" /\ last.found \in CorruptKinds
         /\ last.exc # "OSError") =>
        /\ last.exc = "none"
        /\ last.ret = profiles_default_data
        /\ file = json_dump(profiles_default_data)

\* C8: a load that finds no file creates the directory and the file and
\* hands back the default document; the load that follows it hands back the
\* same document, creates nothing and does not write the file.
C8_IdempotentStoreCreation ==
    (last.op = "get_profiles_data" /\ last.found = "absent" /\ last.exc = "none") =>
        /\ last.ret = profiles_default_data
        /\ last.writes = 1
        /\ dir
        /\ file = json_dump(profiles_default_data)
        /\ get_profiles_data(file, dir, NoFault) =
               [file |-> file, dir |-> dir, exc |-> "none", writes |-> 0,
                ret |-> last.ret]

\* The first load: it found no file and wrote the default document once.
C8_Witness ==
    /\ last.op = "get_profiles_data"
    /\ last.found = "absent"
    /\ last.exc = "none"
    /\ last.writes = 1
    /\ dir

\* C11 as stated: the document a load hands back never holds a dangling
\* reference: its active_profile is None, empty, or a key of its profiles.
C11_LoadedActiveIsStored ==
    (last.op = "get_profiles_data" /\ last.exc = "none") =>
        \/ Falsy(last.ret.active_profile)
        \/ last.ret.active_profile \in DOMAIN last.ret.profiles

\* No active profile on file: active_profile is None, empty or no key of
\* profiles.
NoActiveProfileOnFile(f) ==
    /\ f.kind = "doc"
    /\ \/ Falsy(f.doc.active_profile)
       \/ f.doc.active_profile \notin DOMAIN f.doc.profiles

\* C18 as stated: get_active_user_id() hands back None whenever the document
\* it read (now on file, as it is or as the default it was reset to) has no
\* active profile: a fresh store, a store after logout of the active user, a
\* store whose active_profile names no stored profile.
C18_NoActiveProfileReadsAsNone ==
    (last.op = "get_active_user_id" /\ last.exc = "none"
         /\ NoActiveProfileOnFile(file)) =>
        last.ret = PyNone

\* C20: save_as_active_profile(u, t, n) that returns leaves a document with
\* profiles[u] exactly {username: n, token: t}, active_profile = u, and every
\* profile under another key as the load found it (none, when the load had
\* to write the default document).
C20_SaveAsActiveIsUpsert ==
    [][(last'.op = "save_as_active_profile" /\ last'.exc = "none") =>
          LET u == last'.args.user_id
              before == IF file.kind = "doc" THEN file.doc.profiles
                        ELSE EmptyProfiles
              after == file'.doc.profiles
          IN  /\ file'.kind = "doc"
              /\ file'.doc.active_profile = u
              /\ DOMAIN after = DOMAIN before \cup {u}
              /\ after[u] = [username |-> last'.args.username,
                             token |-> last'.args.token]
              /\ \A k \in DOMAIN before \ {u} : after[k] = before[k]]_vars

\* A save for user "2" into a document that keeps user "1"'s profile.
C20_Witness ==
    /\ SaveCompleted
    /\ last.found = "doc"
    /\ last.args.user_id = "2"
    /\ file.doc.active_profile = "2"
    /\ file.doc.profiles["2"] = Profile("bob", "t2")
    /\ "1" \in DOMAIN file.doc.profiles
    /\ file.doc.profiles["1"] = Profile("alice", "t1")

\* A store file with no dangling reference: whatever it holds that is a
\* document has active_profile None, empty or a key of profiles.
WellFormed(f) ==
    f.kind = "doc" =>
        \/ Falsy(f.doc.active_profile)
        \/ f.doc.active_profile \in DOMAIN f.doc.profiles

StoreOps ==
    {"get_profiles_data", "get_active_user_id", "get_active_profile",
     "get_profile", "save_as_active_profile", "profiles.logout"}

\* C22: a call of the store API on a file with no dangling reference leaves
\* a file with no dangling reference, whatever the arguments and whether it
\* returns or raises; when a save or a logout returns, the file is a document.
C22_OperationsPreserveWellFormedness ==
    [][(last'.op \in StoreOps /\ WellFormed(file)) =>
          /\ WellFormed(file')
          /\ (last'.op \in {"save_as_active_profile", "profiles.logout"}
                  /\ last'.exc = "none") => file'.kind = "doc"]_vars

\* logout of a user who is not the active one, on a document with both:
\* the active id stays and still names a stored profile.
C22_Witness ==
    /\ last.op = "profiles.logout"
    /\ last.exc = "none"
    /\ last.found = "doc"
    /\ last.args.user_id = "2"
    /\ file.kind = "doc"
    /\ file.doc.active_profile = "1"
    /\ "1" \in DOMAIN file.doc.profiles
    /\ WellFormed(file)

ReadOps ==
    {"get_profiles_data", "get_active_user_id", "get_active_profile",
     "get_profile"}

\* C23: on a file that exists and holds a document, get_profiles_data(),
\* get_active_user_id(), get_active_profile() and get_profile(u) return
\* without opening the file for writing and leave the file and the
\* directory as they were; the user_id that get_active_profile() adds to
\* the profile it hands back is in no stored profile afterwards.
C23_ReadAccessorsDoNotWrite ==
    [][(last'.op \in ReadOps /\ file.kind = "doc") =>
          /\ last'.exc = "none"
          /\ last'.writes = 0
          /\ file' = file
          /\ dir' = dir
          /\ \A k \in DOMAIN file'.doc.profiles :
                 DOMAIN file'.doc.profiles[k] = {"username", "token"}]_vars

\* get_active_profile() handed back the active profile with its user_id,
\* and the stored profile is still the username and the token only.
C23_Witness ==
    /\ last.op = "get_active_profile"
    /\ last.found = "doc"
    /\ last.exc = "none"
    /\ last.ret # PyNone
    /\ last.ret.user_id = "1"
    /\ last.writes = 0
    /\ file.kind = "doc"
    /\ file.doc.profiles["1"] = Profile(last.ret.username, last.ret.token)

(***************************************************************************)
(* Properties of the operators (checked under SessionSpec)                 *)
(***************************************************************************)

\* The active profile a store file holds, None if it holds none that is valid.
StoredActiveProfile(f) ==
    IF f.kind # "doc" THEN PyNone
    ELSE IF Falsy(f.doc.active_profile)
            \/ f.doc.active_profile \notin DOMAIN f.doc.profiles
    THEN PyNone
    ELSE [user_id |-> f.doc.active_profile,
          token |-> f.doc.profiles[f.doc.active_profile].token]

\* The handle agrees with the store: both empty, or the same id and token.
Agrees(f, id, tok) ==
    IF StoredActiveProfile(f) = PyNone THEN id = "" /\ tok = ""
    ELSE StoredActiveProfile(f) = [user_id |-> id, token |-> tok]

\* C2 as stated: a logout of a logged-in handle, whatever the revoke call
\* does, runs the store's logout and ends with an empty handle and the
\* profile gone from the store (and no active profile, if it was the active
\* one). Failures of the store itself are left aside.
C2_LogoutAlwaysReachesLoggedOut ==
    [][(last'.op = "logout" /\ unique_id # ""
            /\ last'.exc \notin {"OSError", "TypeError"}) =>
          /\ last'.writes >= 1
          /\ unique_id' = ""
          /\ token' = ""
          /\ file'.kind = "doc"
          /\ unique_id \notin DOMAIN file'.doc.profiles
          /\ (file.kind = "doc" /\ file.doc.active_profile = unique_id) =>
                 StoredActiveProfile(file') = PyNone]_vars

LoginReturned == last.op = "login" /\ last.resp.exc = "none"

\* C3: when authenticate hands back a result whose status is not success,
\* login writes nothing to the store, leaves the handle as it was (so a
\* logged-out handle stays logged out) and shows the result's error message.
C3_LoginFailureLeavesStoreUntouched ==
    [][(last'.op = "login" /\ last'.resp.exc = "none"
            /\ last'.resp.ret.status # "success") =>
          /\ file' = file
          /\ dir' = dir
          /\ last'.writes = 0
          /\ unique_id' = unique_id
          /\ token' = token
          /\ last'.exc = "none"
          /\ error_message' = last'.resp.ret.error_message]_vars

\* A rejected password for a logged-out handle, with a profile on file.
C3_Witness ==
    /\ LoginReturned
    /\ last.resp.ret.status = "fail"
    /\ error_message = "Password does not match!"
    /\ unique_id = ""
    /\ file.kind = "doc"
    /\ DOMAIN file.doc.profiles # {}

LoginSucceeded ==
    LoginReturned /\ last.resp.ret.status = "success" /\ last.exc = "none"

\* C4: when authenticate hands back success with user_id u and token t for
\* the entered username n and login returns, the handle is (u, t) and
\* get_active_profile() hands back {username: n, token: t, user_id: u}.
C4_LoginSuccessPostcondition ==
    LoginSucceeded =>
        /\ unique_id = last.resp.ret.user_id
        /\ token = last.resp.ret.token
        /\ get_active_profile(file, dir, NoFault).exc = "none"
        /\ get_active_profile(file, dir, NoFault).ret =
               [username |-> last.args.username, token |-> last.resp.ret.token,
                user_id |-> last.resp.ret.user_id]

\* A second login, as another user, over a session already on file.
C4_Witness ==
    /\ LoginSucceeded
    /\ last.args.username = "alice"
    /\ unique_id = "2"
    /\ token = "t2"
    /\ "1" \in DOMAIN file.doc.profiles

\* C9 as stated: a login or logout that starts with the handle agreeing
\* with the store ends with the handle agreeing with the store, whether it
\* returns or an exception leaves it.
C9_HandleStoreConsistency ==
    [][(last'.op \in {"login", "logout"} /\ Agrees(file, unique_id, token)) =>
          Agrees(file', unique_id', token')]_vars

\* C10 as stated: a restart initializes the handle from the store (empty
\* when the store holds no valid active profile); after a login that
\* succeeded the restarted handle is the same non-empty (user_id, token);
\* after a logout that returned the restarted handle is empty.
C10_PersistenceAcrossRestarts ==
    [][(last'.op = "restart" /\ last'.exc = "none") =>
          /\ Agrees(file', unique_id', token')
          /\ LoginSucceeded =>
                 unique_id' = unique_id /\ token' = token /\ unique_id' # ""
          /\ (last.op = "logout" /\ last.exc = "none") =>
                 unique_id' = "" /\ token' = ""]_vars

\* C12: validate() leaves the store file, the directory and the handle's
\* unique_id and token as they were, writes nothing, and leaves the entered
\* username and password alone; it shows the ok message when the client
\* hands back None and otherwise the reason it hands back, as the error.
C12_ValidateChangesNoState ==
    [][last'.op = "validate" =>
          /\ file' = file
          /\ dir' = dir
          /\ last'.writes = 0
          /\ unique_id' = unique_id
          /\ token' = token
          /\ blender_id_username' = blender_id_username
          /\ blender_id_password' = blender_id_password
          /\ last'.exc = "none"
          /\ last'.resp.ret = PyNone =>
                 /\ ok_message' = "Authentication token is valid."
                 /\ error_message' = ""
          /\ last'.resp.ret # PyNone =>
                 /\ ok_message' = ""
                 /\ error_message' =
                        last'.resp.ret.v \o "; you probably want to log out and log in again."]_vars

\* A rejected token, shown to a user who stays logged in with the profile
\* still on file.
C12_Witness ==
    /\ last.op = "validate"
    /\ last.resp.ret # PyNone
    /\ unique_id = "1"
    /\ token = "t1"
    /\ error_message # ""
    /\ StoredActiveProfile(file) = [user_id |-> "1", token |-> "t1"]

\* The position of a step in a handler's trace, 0 when it was not taken.
StepAt(steps, name) ==
    IF \E i \in 1..Len(steps) : steps[i].step = name
    THEN CHOOSE i \in 1..Len(steps) : steps[i].step = name
    ELSE 0

\* C19: in every logout() the revoke request comes first and carries the
\* unique_id and token the handle had on entry; profiles.logout, when it is
\* reached, comes after it with that same unique_id; the handle is cleared
\* only after profiles.logout, and is still as on entry when the handler is
\* left before that.
C19_LogoutStepOrdering ==
    [][last'.op = "logout" =>
          LET steps == last'.steps
              revoke == StepAt(steps, "blender_id_server_logout")
              store_logout == StepAt(steps, "profiles.logout")
              clear == StepAt(steps, "clear_handle")
          IN  /\ revoke = 1
              /\ steps[revoke].vals = [user_id |-> unique_id, token |-> token]
              /\ store_logout # 0 =>
                     /\ revoke < store_logout
                     /\ steps[store_logout].vals = [user_id |-> unique_id]
              /\ clear # 0 => store_logout # 0 /\ store_logout < clear
              /\ clear = 0 => unique_id' = unique_id /\ token' = token
              /\ clear # 0 => unique_id' = "" /\ token' = ""]_vars

\* A logout of the active user "1" that took all three steps.
C19_Witness ==
    /\ last.op = "logout"
    /\ last.args.user_id = "1"
    /\ Len(last.steps) = 3
    /\ unique_id = ""
    /\ file.kind = "doc"
    /\ "1" \notin DOMAIN file.doc.profiles

\* Every string a store file holds: the active id, the keys of profiles,
\* and each profile's username and token.
StoredStrings(f) ==
    IF f.kind # "doc" THEN {}
    ELSE {f.doc.active_profile} \cup DOMAIN f.doc.profiles
         \cup {f.doc.profiles[k].username : k \in DOMAIN f.doc.profiles}
         \cup {f.doc.profiles[k].token : k \in DOMAIN f.doc.profiles}

C25_LogoutIsIdempotent ==
    [][(last'.op = "logout" /\ last'.exc # "OSError") =>
          /\ (last.op = "logout" /\ last.exc = "none") =>
                 /\ file' = file
                 /\ dir' = dir
                 /\ unique_id' = unique_id
                 /\ token' = token
          /\ (unique_id = "" /\ file.kind = "doc") =>
                 /\ file'.kind = "doc"
                 /\ file'.doc.profiles = file.doc.profiles
                 /\ file'.doc.active_profile = file.doc.active_profile
                 /\ unique_id' = ""
                 /\ token' = ""]_vars

\* A logout with an empty handle that went through to the store, which
\* still holds user "1" as the active profile.
C25_Witness ==
    /\ last.op = "logout"
    /\ last.args.user_id = ""
    /\ last.exc = "none"
    /\ last.found = "doc"
    /\ last.writes = 1
    /\ unique_id = ""
    /\ file.kind = "doc"
    /\ file.doc.active_profile = "1"
    /\ "1" \in DOMAIN file.doc.profiles

(***************************************************************************)
(* Properties of the authentication client (checked under SessionSpec)     *)
(***************************************************************************)

\* C13 as stated: every result authenticate returns has status exactly
\* "success" or "fail"; with "success" it carries a user id and a token,
\* with "fail" it carries neither. (The outcomes for which it returns no
\* result at all are C15's.)
C13_UniformAuthenticateResult ==
    LoginReturned =>
        LET result == last.resp.ret
        IN  /\ result.status \in {"success", "fail"}
            /\ result.status = "success" =>
                   result.user_id # None /\ result.token # None
            /\ result.status = "fail" =>
                   result.user_id = None /\ result.token = None

\* C14 as stated: on HTTP 200 with status "fail" the message names the
\* flagged field (username before password) or else is a generic non-empty
\* message; on another HTTP status the result is "fail" with a message that
\* holds the status code; every "fail" result has a non-empty message.
C14_AuthenticateFailureMessages ==
    LoginReturned =>
        LET x == last.args.exchange
            result == last.resp.ret
        IN  /\ (x.transport = "ok" /\ x.status_code = HTTP_OK
                    /\ x.body.status = "fail") =>
                   /\ result.status = "fail"
                   /\ "username" \in x.body.flagged =>
                          result.error_message = "Username does not exist"
                   /\ ("username" \notin x.body.flagged
                          /\ "password" \in x.body.flagged) =>
                          result.error_message = "Password does not match!"
                   /\ x.body.flagged = {} =>
                          result.error_message \notin {None, ""}
            /\ (x.transport = "ok" /\ x.status_code # HTTP_OK) =>
                   /\ result.status = "fail"
                   /\ result.error_message = StatusCodeMessage(x.status_code)
            /\ result.status = "fail" => result.error_message \notin {None, ""}

\* A remote outcome that is no well-formed answer: the transport failed,
\* the HTTP status is not 200, the body is not JSON, or it lacks 'status'
\* or (for a success) the 'data' fields.
RemoteFailure(x) ==
    \/ x.transport # "ok"
    \/ x.status_code # HTTP_OK
    \/ x.body.kind = "notjson"
    \/ x.body.status = None
    \/ ("has_data" \in DOMAIN x.body /\ ~x.body.has_data)

\* C15 as stated: whatever the remote side does, the client call inside
\* login() and logout() raises nothing, and each remote failure comes back
\* as a result with status "fail".
C15_RemoteOutcomesReturnedAsData ==
    last.op \in {"login", "logout"} =>
        /\ last.resp.exc = "none"
        /\ RemoteFailure(last.args.exchange) => last.resp.ret.status = "fail"

(***************************************************************************)
(* Properties of two processes on one file (checked under ConcurrentSpec)  *)
(***************************************************************************)

\* C16 as stated: every store write replaces the file content in one step,
\* so a load that runs while another process is between the start and the
\* end of a write never reads an empty or partly written file (and so never
\* goes on to reset the store to the default document).
C16_AtomicFullDocumentRewrite ==
    \A p \in Procs :
        proc[p].during =>
            /\ proc[p].found \notin CorruptKinds
            /\ proc[p].pc \notin {"default_open", "default_dump"}

\* C17 as stated: once the interleaved calls have all returned and the
\* write that went through last was that of a save_as_active_profile or a
\* logout, the file holds exactly the full document that call wrote.
C17_LastWriterWins ==
    ((\A p \in Procs : proc[p].pc = "idle")
         /\ wrote.op \in {"save_as_active_profile", "profiles.logout"}) =>
        file = wrote.content

\* C24 as stated: once logout(u) has returned (with no save for u under way
\* in the other process), and until save_as_active_profile(u, ...) is called
\* again, no document in the store file holds a profile for u, whatever
\* calls of the other process for another user interleave with the logout.
C24_LoggedOutStaysDeleted ==
    \A u \in logged_out :
        file.kind = "doc" => u \notin DOMAIN file.doc.profiles

====
